---- MODULE Spec2Model ----
(***************************************************************************)
(* Model of the luckfox SD-card flashing tools.                            *)
(*                                                                         *)
(*   multiflash.py  SDCardMonitor: a poll loop that diffs the removable    *)
(*                  block devices against the known set and queues new     *)
(*                  ones, and a worker thread that runs img2sd on each     *)
(*                  queued device.                  (Spec, SpecPool)       *)
(*   img2sd.py      main: one flash session that walks the partition       *)
(*                  entries of .env.txt and writes, pads and verifies      *)
(*                  each image with dd.             (SpecFlash)            *)
(*                  main from sys.argv on: device selection and the        *)
(*                  safety check before the session.  (SpecCli)            *)
(*                  nice_size and true_size, the size codec. (SpecCodec)   *)
(***************************************************************************)
EXTENDS Integers, Sequences, FiniteSets, TLC

(***************************************************************************)
(* Bounds of the model.                                                    *)
(***************************************************************************)
NumDevices == 1

PoolSize == 2

MaxQueue == 2

MaxRecords == 2

MaxCount == 1025

Devices == 1..NumDevices

Workers == 1..PoolSize

NoDevice == 0

NoWorker == 0

VARIABLES
    \* ---- multiflash.py: SDCardMonitor fields ----
    known_devices,      \* self.known_devices
    active_devices,     \* self.active_devices
    completed_devices,  \* self.completed_devices
    failed_devices,     \* self.failed_devices
    flash_queue,        \* self.flash_queue (FIFO)
    lock,               \* self.lock: the worker that holds it, or NoWorker
    stop_event,         \* self.stop_event
    \* ---- monitor_sd_cards: the main thread ----
    mpc,                \* position of the poll loop
    current_devices,    \* local current_devices of this poll cycle
    new_devices,        \* devices of new_devices not yet iterated
    removed_devices,    \* devices of removed_devices not yet iterated
    mdev,               \* loop variable `device` of the poll loop
    \* ---- start_flash_worker / flash_device: the worker threads ----
    wpc,                \* position of each worker thread
    wdev,               \* local `device` of each worker
    \* ---- img2sd.py: one flash session (main) ----
    entries,            \* the partition entries p of the mmcblk1 line of .env.txt
    images,             \* os.path.getsize of <name>.img per name, or NoImage
    fpc,                \* position of main
    idx,                \* index in p of the entry e being processed
    c_off,              \* the offset cursor c_off
    dev,                \* the target dev that every dd writes to
    vd_confirm,         \* the answer read by validate_device, "none" before
    confirm,            \* the answer read by main after a failed verification
    dev_log,            \* the dd commands run on the target device, in order
    \* ---- img2sd.py: one run of the size codec ----
    rt_pc,              \* position of the run
    rt_n,               \* the byte count n given to nice_size
    rt_s,               \* the string nice_size returned
    rt_back             \* what true_size read back from it

monVars == <<known_devices, active_devices, completed_devices, failed_devices,
             flash_queue, lock, stop_event, mpc, current_devices, new_devices,
             removed_devices, mdev, wpc, wdev>>

flashVars == <<entries, images, fpc, idx, c_off, dev, vd_confirm, confirm,
               dev_log>>

codecVars == <<rt_pc, rt_n, rt_s, rt_back>>

vars == <<monVars, flashVars, codecVars>>

mainVars == <<mpc, current_devices, new_devices, removed_devices, mdev>>

workerVars == <<wpc, wdev>>

(***************************************************************************)
(* SDCardMonitor.__init__ and the start of monitor_sd_cards.               *)
(***************************************************************************)
MonitorInit(started) ==
    /\ known_devices = {}
    /\ active_devices = {}
    /\ completed_devices = {}
    /\ failed_devices = {}
    /\ flash_queue = <<>>
    /\ lock = NoWorker
    /\ stop_event = FALSE
    /\ mpc = "scan"
    /\ current_devices = {}
    /\ new_devices = {}
    /\ removed_devices = {}
    /\ mdev = NoDevice
    /\ wpc = [w \in Workers |-> IF w \in started THEN "loop" ELSE "off"]
    /\ wdev = [w \in Workers |-> NoDevice]

\* No flash session is modelled inside the orchestrator: img2sd is the
\* subprocess whose exit code WOutcome draws.
FlashIdle ==
    /\ entries = <<>>
    /\ images = <<>>
    /\ fpc = "idle"
    /\ idx = 0
    /\ c_off = 0
    /\ dev = <<>>
    /\ vd_confirm = "none"
    /\ confirm = "none"
    /\ dev_log = <<>>

\* No run of the size codec is modelled inside the tools.
CodecIdle ==
    /\ rt_pc = "idle"
    /\ rt_n = 0
    /\ rt_s = <<>>
    /\ rt_back = 0

\* monitor_sd_cards starts exactly one worker thread.
Init == MonitorInit({1}) /\ FlashIdle /\ CodecIdle

\* The same monitor with a pool of PoolSize workers running start_flash_worker.
InitPool == MonitorInit(Workers) /\ FlashIdle /\ CodecIdle

(***************************************************************************)
(* monitor_sd_cards: the poll loop (it takes no lock anywhere).            *)
(***************************************************************************)
InPollLoop == mpc \in {"scan", "new", "chk_failed", "put", "rem", "rem_failed"}

\* current_devices = {...get_sd_cards()}; new_devices = current - known
MonScan ==
    /\ mpc = "scan"
    /\ \E cur \in SUBSET Devices :
        /\ current_devices' = cur
        /\ new_devices' = cur \ known_devices
    /\ mpc' = "new"
    /\ UNCHANGED <<known_devices, active_devices, completed_devices, failed_devices,
                   flash_queue, lock, stop_event, removed_devices, mdev, workerVars,
                   flashVars, codecVars>>

\* for device in new_devices: known.add(device); first half of the test
\* `device not in completed and device not in failed`
MonNew ==
    /\ mpc = "new"
    /\ \E d \in new_devices :
        /\ new_devices' = new_devices \ {d}
        /\ known_devices' = known_devices \cup {d}
        /\ IF d \notin completed_devices
             THEN mpc' = "chk_failed" /\ mdev' = d
             ELSE mpc' = "new" /\ mdev' = NoDevice
    /\ UNCHANGED <<active_devices, completed_devices, failed_devices, flash_queue,
                   lock, stop_event, current_devices, removed_devices, workerVars,
                   flashVars, codecVars>>

\* second half of the test: `device not in self.failed_devices`
MonChkFailed ==
    /\ mpc = "chk_failed"
    /\ IF mdev \notin failed_devices
         THEN mpc' = "put" /\ UNCHANGED mdev
         ELSE mpc' = "new" /\ mdev' = NoDevice
    /\ UNCHANGED <<known_devices, active_devices, completed_devices, failed_devices,
                   flash_queue, lock, stop_event, current_devices, new_devices,
                   removed_devices, workerVars,
                   flashVars, codecVars>>

\* self.flash_queue.put(device)
MonPut ==
    /\ mpc = "put"
    /\ Len(flash_queue) < MaxQueue
    /\ flash_queue' = Append(flash_queue, mdev)
    /\ mpc' = "new"
    /\ mdev' = NoDevice
    /\ UNCHANGED <<known_devices, active_devices, completed_devices, failed_devices,
                   lock, stop_event, current_devices, new_devices, removed_devices,
                   workerVars,
                   flashVars, codecVars>>

\* removed_devices = self.known_devices - current_devices
MonRemoved ==
    /\ mpc = "new"
    /\ new_devices = {}
    /\ removed_devices' = known_devices \ current_devices
    /\ current_devices' = {}
    /\ mpc' = "rem"
    /\ UNCHANGED <<known_devices, active_devices, completed_devices, failed_devices,
                   flash_queue, lock, stop_event, new_devices, mdev, workerVars,
                   flashVars, codecVars>>

\* for device in removed_devices: known.remove(device); purge from completed
MonRem ==
    /\ mpc = "rem"
    /\ \E d \in removed_devices :
        /\ removed_devices' = removed_devices \ {d}
        /\ known_devices' = known_devices \ {d}
        /\ completed_devices' = completed_devices \ {d}
        /\ mdev' = d
    /\ mpc' = "rem_failed"
    /\ UNCHANGED <<active_devices, failed_devices, flash_queue, lock, stop_event,
                   current_devices, new_devices, workerVars,
                   flashVars, codecVars>>

\* if device in self.failed_devices: self.failed_devices.remove(device)
MonRemFailed ==
    /\ mpc = "rem_failed"
    /\ failed_devices' = failed_devices \ {mdev}
    /\ mpc' = "rem"
    /\ mdev' = NoDevice
    /\ UNCHANGED <<known_devices, active_devices, completed_devices, flash_queue,
                   lock, stop_event, current_devices, new_devices, removed_devices,
                   workerVars,
                   flashVars, codecVars>>

\* self.print_status(); time.sleep(2)
MonStatus ==
    /\ mpc = "rem"
    /\ removed_devices = {}
    /\ mpc' = "scan"
    /\ UNCHANGED <<known_devices, active_devices, completed_devices, failed_devices,
                   flash_queue, lock, stop_event, current_devices, new_devices,
                   removed_devices, mdev, workerVars,
                   flashVars, codecVars>>

\* except KeyboardInterrupt: self.stop_event.set()
MonInterrupt ==
    /\ InPollLoop
    /\ stop_event' = TRUE
    /\ mpc' = "join"
    /\ current_devices' = {}
    /\ new_devices' = {}
    /\ removed_devices' = {}
    /\ mdev' = NoDevice
    /\ UNCHANGED <<known_devices, active_devices, completed_devices, failed_devices,
                   flash_queue, lock, workerVars,
                   flashVars, codecVars>>

\* The handler that prints the final status without waiting for the worker.
WorkerJoined_NoWait(w) == TRUE

\* worker.join() returns: the thread of start_flash_worker has ended (its
\* loop saw the stop event, or the thread died), or was never started.
WorkerJoined(w) == wpc[w] \in {"off", "exit", "dead"}

\* worker.join(); print("Final status:"); self.print_status()
MonJoin ==
    /\ mpc = "join"
    /\ \A w \in Workers : WorkerJoined(w)
    /\ mpc' = "done"
    /\ UNCHANGED <<known_devices, active_devices, completed_devices, failed_devices,
                   flash_queue, lock, stop_event, current_devices, new_devices,
                   removed_devices, mdev, workerVars,
                   flashVars, codecVars>>

(***************************************************************************)
(* start_flash_worker: the worker loop.                                    *)
(***************************************************************************)
\* while not self.stop_event.is_set():
WLoop(w) ==
    /\ wpc[w] = "loop"
    /\ wpc' = [wpc EXCEPT ![w] = IF stop_event THEN "exit" ELSE "get"]
    /\ UNCHANGED <<known_devices, active_devices, completed_devices, failed_devices,
                   flash_queue, lock, stop_event, mainVars, wdev,
                   flashVars, codecVars>>

\* device = self.flash_queue.get(timeout=1), an entry is there
WGet(w) ==
    /\ wpc[w] = "get"
    /\ flash_queue # <<>>
    /\ wdev' = [wdev EXCEPT ![w] = Head(flash_queue)]
    /\ flash_queue' = Tail(flash_queue)
    /\ wpc' = [wpc EXCEPT ![w] = "flash"]
    /\ UNCHANGED <<known_devices, active_devices, completed_devices, failed_devices,
                   lock, stop_event, mainVars,
                   flashVars, codecVars>>

\* get() times out on the empty queue and raises queue.Empty; the handler
\* header `except Queue.Empty` names an attribute the class queue.Queue does
\* not have, so matching it raises AttributeError out of the try statement
\* and of the while loop: the thread ends.
WTimeout(w) ==
    /\ wpc[w] = "get"
    /\ flash_queue = <<>>
    /\ wpc' = [wpc EXCEPT ![w] = "dead"]
    /\ UNCHANGED <<known_devices, active_devices, completed_devices, failed_devices,
                   flash_queue, lock, stop_event, mainVars, wdev,
                   flashVars, codecVars>>

(***************************************************************************)
(* flash_device.                                                           *)
(***************************************************************************)
\* flash_device without its membership test: every dequeued device is flashed
IsActive_NoCheck(d) == FALSE

\* if device in self.active_devices
IsActive(d) == d \in active_devices

\* with self.lock: if device in active: return; active.add(device)
WBegin(w) ==
    /\ wpc[w] = "flash"
    /\ lock = NoWorker
    /\ IF IsActive(wdev[w])
         THEN /\ wpc' = [wpc EXCEPT ![w] = "loop"]
              /\ wdev' = [wdev EXCEPT ![w] = NoDevice]
              /\ UNCHANGED active_devices
         ELSE /\ wpc' = [wpc EXCEPT ![w] = "run"]
              /\ active_devices' = active_devices \cup {wdev[w]}
              /\ UNCHANGED wdev
    /\ UNCHANGED <<known_devices, completed_devices, failed_devices, flash_queue,
                   lock, stop_event, mainVars,
                   flashVars, codecVars>>

\* process = subprocess.run(['./img2sd', device]) has returned or raised;
\* with self.lock: self.active_devices.remove(device)
WRecord(w) ==
    /\ wpc[w] = "run"
    /\ lock = NoWorker
    /\ lock' = w
    /\ active_devices' = active_devices \ {wdev[w]}
    /\ wpc' = [wpc EXCEPT ![w] = "upd"]
    /\ UNCHANGED <<known_devices, completed_devices, failed_devices, flash_queue,
                   stop_event, mainVars, wdev,
                   flashVars, codecVars>>

\* The outcomes of subprocess.run: exit code 0, exit code non-zero, or the
\* call itself raised (the except branch of flash_device).
Outcomes == {"ok", "fail", "exc"}

\* completed.add(device) when process.returncode == 0, failed.add(device)
\* otherwise and in the except branch; the with block then releases the lock
WOutcome(w) ==
    /\ wpc[w] = "upd"
    /\ lock = w
    /\ \E r \in Outcomes :
        IF r = "ok"
          THEN /\ completed_devices' = completed_devices \cup {wdev[w]}
               /\ UNCHANGED failed_devices
          ELSE /\ failed_devices' = failed_devices \cup {wdev[w]}
               /\ UNCHANGED completed_devices
    /\ lock' = NoWorker
    /\ wpc' = [wpc EXCEPT ![w] = "loop"]
    /\ wdev' = [wdev EXCEPT ![w] = NoDevice]
    /\ UNCHANGED <<known_devices, active_devices, flash_queue, stop_event, mainVars,
                   flashVars, codecVars>>

Next ==
    \/ MonScan
    \/ MonNew
    \/ MonChkFailed
    \/ MonPut
    \/ MonRemoved
    \/ MonRem
    \/ MonRemFailed
    \/ MonStatus
    \/ MonInterrupt
    \/ MonJoin
    \/ \E w \in Workers : WLoop(w)
    \/ \E w \in Workers : WGet(w)
    \/ \E w \in Workers : WTimeout(w)
    \/ \E w \in Workers : WBegin(w)
    \/ \E w \in Workers : WRecord(w)
    \/ \E w \in Workers : WOutcome(w)

Spec == Init /\ [][Next]_vars

SpecPool == InitPool /\ [][Next]_vars

(***************************************************************************)
(* img2sd.py: the size codec.  A string is a sequence of one-character     *)
(* strings.                                                                *)
(***************************************************************************)
KiB == 1024

MiB == 1024 * 1024

GiB == 1024 * 1024 * 1024

\* u = {'B': 1, 'K': 1024, 'M': 1024*1024, 'G': 1024*1024*1024}
UnitChars == {"B", "K", "M", "G"}

UnitBytes(c) ==
    CASE c = "B" -> 1
      [] c = "K" -> KiB
      [] c = "M" -> MiB
      [] c = "G" -> GiB

DigitChars == <<"0", "1", "2", "3", "4", "5", "6", "7", "8", "9">>

IsDigit(c) == \E i \in DOMAIN DigitChars : DigitChars[i] = c

DigitVal(c) == (CHOOSE i \in DOMAIN DigitChars : DigitChars[i] = c) - 1

\* int(m.group(1))
RECURSIVE IntOf(_)
IntOf(ds) ==
    IF ds = <<>> THEN 0
    ELSE IntOf(SubSeq(ds, 1, Len(ds) - 1)) * 10 + DigitVal(ds[Len(ds)])

\* The index after the longest run of digits of s that starts at i.
RECURSIVE DigitRunEnd(_, _)
DigitRunEnd(s, i) ==
    IF i <= Len(s) /\ IsDigit(s[i]) THEN DigitRunEnd(s, i + 1) ELSE i

\* r'(\d+)([BKMG])' matches at i: digits from i, greedily, then a unit letter.
SizeMatchAt(s, i) ==
    /\ IsDigit(s[i])
    /\ DigitRunEnd(s, i) <= Len(s)
    /\ s[DigitRunEnd(s, i)] \in UnitChars

\* true_size: re.search takes the leftmost match; 0 when there is none.
true_size(s) ==
    LET starts == {i \in DOMAIN s : SizeMatchAt(s, i)}
    IN  IF starts = {} THEN 0
        ELSE LET i == CHOOSE j \in starts : \A k \in starts : j <= k
                 e == DigitRunEnd(s, i)
             IN  IntOf(SubSeq(s, i, e - 1)) * UnitBytes(s[e])

\* The answers the operator can type at a yes/NO prompt.
Answers == {"yes", "YES", "y", ""}

\* confirm.lower()
Lower(a) == IF a = "YES" THEN "yes" ELSE a

(***************************************************************************)
(* img2sd.py: nice_size, the formatter of byte counts.                     *)
(***************************************************************************)
\* str(n) for n >= 0
RECURSIVE IntToChars(_)
IntToChars(n) ==
    IF n < 10 THEN <<DigitChars[n + 1]>>
    ELSE IntToChars(n \div 10) \o <<DigitChars[(n % 10) + 1]>>

\* The format spec ',' of f"{n:,}": a comma before every group of three
\* digits, counted from the right.
RECURSIVE GroupThousands(_)
GroupThousands(ds) ==
    IF Len(ds) <= 3 THEN ds
    ELSE GroupThousands(SubSeq(ds, 1, Len(ds) - 3))
            \o <<",">> \o SubSeq(ds, Len(ds) - 2, Len(ds))

\* reversed(u.items()): the units from the largest to the smallest
UnitsDescending == <<"G", "M", "K", "B">>

\* nice_size: the first unit v, from the largest, with n >= v and n % v == 0
\* gives f"{n//v:,}{k}"; when there is none, f"{n:,}B".
nice_size(n) ==
    LET fits == {j \in DOMAIN UnitsDescending :
                    /\ n >= UnitBytes(UnitsDescending[j])
                    /\ n % UnitBytes(UnitsDescending[j]) = 0}
    IN  IF fits = {} THEN GroupThousands(IntToChars(n)) \o <<"B">>
        ELSE LET j == CHOOSE i \in fits : \A k \in fits : i <= k
                 u == UnitsDescending[j]
             IN  GroupThousands(IntToChars(n \div UnitBytes(u))) \o <<u>>

(***************************************************************************)
(* img2sd.py: the two patterns main matches an entry e of p against.       *)
(***************************************************************************)
\* The character of s at position i; "" past the end of s.
Char(s, i) == IF i \in DOMAIN s THEN s[i] ELSE ""

\* [KMG]: the unit letters of the entry patterns (no 'B')
EntryUnitChars == {"K", "M", "G"}

\* \w: a letter, a digit or the underscore
IsWord(c) ==
    \/ IsDigit(c)
    \/ c \in {"a", "b", "c", "d", "e", "f", "g", "h", "i", "j", "k", "l", "m",
              "n", "o", "p", "q", "r", "s", "t", "u", "v", "w", "x", "y", "z",
              "A", "B", "C", "D", "E", "F", "G", "H", "I", "J", "K", "L", "M",
              "N", "O", "P", "Q", "R", "S", "T", "U", "V", "W", "X", "Y", "Z",
              "_"}

\* The index after the longest run of word characters of s that starts at i.
RECURSIVE WordRunEnd(_, _)
WordRunEnd(s, i) ==
    IF i <= Len(s) /\ IsWord(s[i]) THEN WordRunEnd(s, i + 1) ELSE i

\* r'(\d+[KMG])@(\d+[KMG])\((\w+)\)' matches s from position i.
ExplicitMatchAt(s, i) ==
    LET u1 == DigitRunEnd(s, i)
        u2 == DigitRunEnd(s, u1 + 2)
        cl == WordRunEnd(s, u2 + 2)
    IN  /\ IsDigit(Char(s, i))
        /\ Char(s, u1) \in EntryUnitChars
        /\ Char(s, u1 + 1) = "@"
        /\ IsDigit(Char(s, u1 + 2))
        /\ Char(s, u2) \in EntryUnitChars
        /\ Char(s, u2 + 1) = "("
        /\ cl > u2 + 2
        /\ Char(s, cl) = ")"

\* r'(\d+[KMG])\((\w+)\)' matches s from position i.
AutoMatchAt(s, i) ==
    LET u1 == DigitRunEnd(s, i)
        cl == WordRunEnd(s, u1 + 2)
    IN  /\ IsDigit(Char(s, i))
        /\ Char(s, u1) \in EntryUnitChars
        /\ Char(s, u1 + 1) = "("
        /\ cl > u1 + 2
        /\ Char(s, cl) = ")"

Leftmost(S) == CHOOSE i \in S : \A k \in S : i <= k

\* m of `if (m := re.search(explicit, e)) or (m := re.search(auto, e))`:
\* groups is len(m.groups()), 0 when neither pattern is found in e.
EntryMatch(e) ==
    LET ex == {i \in DOMAIN e : ExplicitMatchAt(e, i)}
        au == {i \in DOMAIN e : AutoMatchAt(e, i)}
    IN  IF ex # {}
          THEN LET i  == Leftmost(ex)
                   u1 == DigitRunEnd(e, i)
                   u2 == DigitRunEnd(e, u1 + 2)
               IN  [groups |-> 3,
                    g1 |-> SubSeq(e, i, u1),
                    g2 |-> SubSeq(e, u1 + 2, u2),
                    g3 |-> SubSeq(e, u2 + 2, WordRunEnd(e, u2 + 2) - 1)]
        ELSE IF au # {}
          THEN LET i  == Leftmost(au)
                   u1 == DigitRunEnd(e, i)
               IN  [groups |-> 2,
                    g1 |-> SubSeq(e, i, u1),
                    g2 |-> SubSeq(e, u1 + 2, WordRunEnd(e, u1 + 2) - 1),
                    g3 |-> <<>>]
        ELSE [groups |-> 0, g1 |-> <<>>, g2 |-> <<>>, g3 |-> <<>>]

(***************************************************************************)
(* img2sd.py: the block devices of the machine, and the safety check.      *)
(***************************************************************************)
\* The blockdevices of lsblk -d (get_disk_info): sda is a fixed disk, sdb a
\* removable card, sr0 an optical drive.
LsblkDevices ==
    { [name |-> <<"s", "d", "a">>, type |-> "disk"],
      [name |-> <<"s", "d", "b">>, type |-> "disk"],
      [name |-> <<"s", "r", "0">>, type |-> "rom"] }

\* The devices whose /sys/block/<name>/removable reads "1".
RemovableNames == { <<"s", "d", "b">>, <<"s", "r", "0">> }

\* s.startswith(prefix)
StartsWith(s, prefix) ==
    /\ Len(s) >= Len(prefix)
    /\ SubSeq(s, 1, Len(prefix)) = prefix

DevPrefix == <<"/", "d", "e", "v", "/">>

\* os.path.basename: what follows the last '/'
basename(path) ==
    LET slashes == {i \in DOMAIN path : path[i] = "/"}
    IN  IF slashes = {} THEN path
        ELSE SubSeq(path, (CHOOSE i \in slashes : \A k \in slashes : k <= i) + 1,
                    Len(path))

\* is_removable(device)
is_removable(device) == basename(device) \in RemovableNames

\* The answer typed at a yes/NO prompt is taken as a yes.
Affirmative_Lenient(a) == a # "no"

\* confirm.lower() == 'yes'
Affirmative(a) == Lower(a) = "yes"

\* The device is one validate_device asks the operator about.
NeedsConfirmation(device) ==
    /\ StartsWith(device, DevPrefix)
    /\ \E d \in LsblkDevices : d.name = basename(device)
    /\ ~is_removable(device)

\* validate_device(device), the operator answering a when asked
validate_device(device, a) ==
    /\ StartsWith(device, DevPrefix)
    /\ \E d \in LsblkDevices : d.name = basename(device)
    /\ (~is_removable(device)) => Affirmative(a)

(***************************************************************************)
(* img2sd.py: the inputs of one flash session.                             *)
(***************************************************************************)
\* The SIZE tokens of the entries written SIZE(NAME).
SizeTokens == { <<"1", "M">>, <<"2", "M">>, <<"1", "2", "8", "M">> }

\* The SIZE@OFFSET tokens of the entries written SIZE@OFFSET(NAME).
SizeAtOffsetTokens == { <<"5", "1", "2", "K", "@", "1", "M">> }

\* The partition names, by position in the descriptor.
NameLetters == <<"a", "b", "c", "d">>

\* The texts an entry e of p = l.split(',') can have at position i: SIZE(NAME),
\* SIZE@OFFSET(NAME), or a size without a unit letter, which neither pattern
\* finds.
Entries(i) ==
    LET nm == <<"(", NameLetters[i], ")">>
    IN  {s \o nm : s \in SizeTokens \cup SizeAtOffsetTokens} \cup {<<"6", "4">> \o nm}

NoImage == -1

\* os.path.getsize(img_path) of the image files; NoImage: the file is missing.
ImageSizes == { 512 * KiB, MiB, 65 * MiB, 128 * MiB }

Descriptors ==
    UNION { {p \in [1..n -> UNION {Entries(i) : i \in 1..n}] :
                \A i \in 1..n : p[i] \in Entries(i)} : n \in 1..MaxRecords }

\* The image files of the working directory: os.path.getsize of <name>.img
\* for every name an entry of p gives, NoImage where the file is missing.
ImageFiles(p) ==
    [ {EntryMatch(p[i]).g3 : i \in {j \in DOMAIN p : EntryMatch(p[j]).groups = 3}}
        \cup {EntryMatch(p[i]).g2 : i \in {j \in DOMAIN p : EntryMatch(p[j]).groups = 2}}
      -> ImageSizes \cup {NoImage} ]

\* main has accepted the removable card /dev/sdb given as its argument and
\* is about to read .env.txt.
InitFlash ==
    /\ MonitorInit({1})
    /\ CodecIdle
    /\ entries \in Descriptors
    /\ images \in ImageFiles(entries)
    /\ dev = DevPrefix \o <<"s", "d", "b">>
    /\ vd_confirm = "none"
    /\ confirm = "none"
    /\ fpc = "entry"
    /\ idx = 1
    /\ c_off = 0
    /\ dev_log = <<>>

(***************************************************************************)
(* img2sd.py: the locals of main for the entry e = p[i].                   *)
(***************************************************************************)
\* if (m := re.search(...)) or (m := re.search(...))
Matched(i) == EntryMatch(entries[i]).groups # 0

\* size = true_size(m.group(1))
size(i) == true_size(EntryMatch(entries[i]).g1)

\* off = true_size(m.group(2)) when len(m.groups()) == 3, else off = 0
off(i) ==
    IF EntryMatch(entries[i]).groups = 3
      THEN true_size(EntryMatch(entries[i]).g2) ELSE 0

\* name = m.group(3) when len(m.groups()) == 3, else m.group(2)
name(i) ==
    IF EntryMatch(entries[i]).groups = 3
      THEN EntryMatch(entries[i]).g3 ELSE EntryMatch(entries[i]).g2

\* actual_size = os.path.getsize(img_path), img_path = f"{name}.img"
actual_size(i) == images[name(i)]

\* The byte count of block_size: "64M" if actual_size > 64*1024*1024 else "1M"
block_size(i) == IF actual_size(i) > 64 * MiB THEN 64 * MiB ELSE MiB

\* pad_size = size - actual_size
pad_size(i) == size(i) - actual_size(i)

\* dd seek=N with bs=B starts writing at byte N * B.
\* seek = c_off // (64*1024*1024 if block_size == '64M' else 1024*1024)
WriteStart(i) == (c_off \div block_size(i)) * block_size(i)

\* seek = (c_off + actual_size) // block bytes
PadStart(i) == ((c_off + actual_size(i)) \div block_size(i)) * block_size(i)

\* count = pad_size // block bytes: dd writes count blocks of bs bytes
PadLength(i) == (pad_size(i) \div block_size(i)) * block_size(i)

(***************************************************************************)
(* The content of the target device, as the dd commands of the session     *)
(* left it.  A byte is <<"old", p>> (never written, position p),           *)
(* <<"zero", 0>>, or <<"img", i, k>> (byte k of the image of entry i).     *)
(***************************************************************************)
ByteAt(log, p) ==
    LET cover == {k \in DOMAIN log : log[k].start <= p /\ p < log[k].start + log[k].len}
    IN  IF cover = {} THEN <<"old", p>>
        ELSE LET k == CHOOSE j \in cover : \A l \in cover : l <= j
             IN  IF log[k].kind = "zero" THEN <<"zero", 0>>
                 ELSE <<"img", log[k].rec, p - log[k].start>>

\* The positions of [a, a + n) where the content can change its source: the
\* content between two of them comes from one command, byte after byte.
Breaks(log, a, n) ==
    {p \in ({a} \cup {log[k].start : k \in DOMAIN log}
                \cup {log[k].start + log[k].len : k \in DOMAIN log}) :
        a <= p /\ p < a + n}

\* Device bytes [a, a + n) are the bytes [from, from + n) of the image of i.
RangeIsImage(log, a, n, i, from) ==
    \A p \in Breaks(log, a, n) : ByteAt(log, p) = <<"img", i, from + (p - a)>>

\* Device bytes [a, a + n) are all zero.
RangeIsZero(log, a, n) ==
    \A p \in Breaks(log, a, n) : ByteAt(log, p) = <<"zero", 0>>

(***************************************************************************)
(* img2sd.py: the verifiers.  Two byte strings compare (or hash) equal     *)
(* when they have the same length and the same bytes.                      *)
(***************************************************************************)
\* verify_written_data(img_path, dev, offset, size): dd if=dev bs=1k
\* skip=offset//1024 count=actual_size//1024, plus iflag=count_bytes when
\* actual_size % 1024 != 0, which makes dd read count BYTES.
verify_written_data(log, i, offset) ==
    LET actual == actual_size(i)
        skip   == (offset \div KiB) * KiB
        nread  == IF actual % KiB # 0 THEN actual \div KiB
                  ELSE (actual \div KiB) * KiB
    IN  /\ nread = actual
        /\ RangeIsImage(log, skip, nread, i, 0)

SAMPLE_SIZE == 1024 * 1024

Max(a, b) == IF a >= b THEN a ELSE b

Min(a, b) == IF a <= b THEN a ELSE b

\* quick_verify_data(img_path, dev, offset, size): for each position the
\* source sample is f.read(SAMPLE_SIZE) at pos; the device sample is read by
\* dd bs=1k skip=(offset+pos)//1024 count=SAMPLE_SIZE//1024
\* iflag=skip_bytes,count_bytes, so skip and count are BYTES.
quick_verify_data(log, i, offset) ==
    LET file_size == actual_size(i)
        positions == {0, file_size \div 2, Max(0, file_size - SAMPLE_SIZE)}
    IN  \A pos \in positions :
            LET source_len == Min(SAMPLE_SIZE, file_size - pos)
                dev_start  == (offset + pos) \div KiB
                dev_len    == SAMPLE_SIZE \div KiB
            IN  /\ source_len = dev_len
                /\ RangeIsImage(log, dev_start, dev_len, i, pos)

(***************************************************************************)
(* img2sd.py: main, from the command line to the descriptor.               *)
(***************************************************************************)
SelectWord == <<"s", "e", "l", "e", "c", "t">>

\* sys.argv[1:]: no argument, the word select, a device path under /dev/
\* (the fixed disk, the removable card, a name lsblk does not list), the
\* fixed disk spelled /./dev/sda, or two arguments.
CliArguments ==
    { <<>>,
      <<SelectWord>>,
      <<DevPrefix \o <<"s", "d", "a">>>>,
      <<DevPrefix \o <<"s", "d", "b">>>>,
      <<DevPrefix \o <<"s", "d", "z">>>>,
      <<<<"/", ".", "/", "d", "e", "v", "/", "s", "d", "a">>>>,
      <<DevPrefix \o <<"s", "d", "b">>, DevPrefix \o <<"s", "d", "a">>>> }

\* The sessions of the command-line specification flash one partition.
CliDescriptors == {p \in Descriptors : Len(p) = 1}

\* The process has started: sys.argv is about to be read.
InitCli ==
    /\ MonitorInit({1})
    /\ CodecIdle
    /\ entries \in CliDescriptors
    /\ images \in ImageFiles(entries)
    /\ dev = <<>>
    /\ vd_confirm = "none"
    /\ confirm = "none"
    /\ fpc = "argv"
    /\ idx = 1
    /\ c_off = 0
    /\ dev_log = <<>>

\* if len(sys.argv) == 1: select_device(); elif len(sys.argv) == 2:
\* dev = sys.argv[1], and select_device() when it is "select"; else usage
\* and sys.exit(-1)
FArgs ==
    /\ fpc = "argv"
    /\ \E argv \in CliArguments :
        IF Len(argv) = 0 \/ (Len(argv) = 1 /\ argv[1] = SelectWord)
          THEN fpc' = "select" /\ UNCHANGED dev
        ELSE IF Len(argv) = 1
          THEN fpc' = "check" /\ dev' = argv[1]
        ELSE fpc' = "usage" /\ UNCHANGED dev
    /\ UNCHANGED <<monVars, codecVars, entries, images, vd_confirm, confirm,
                   idx, c_off, dev_log>>

NoSelection == <<>>

\* select_device(): the menu lists the lsblk devices of type disk; the
\* operator picks one or quits (also when there is none); the pick is
\* returned only if validate_device accepts it.  `if not dev: sys.exit(1)`
FSelect ==
    /\ fpc = "select"
    /\ \E selected_device \in
              {NoSelection} \cup {DevPrefix \o d.name :
                                    d \in {x \in LsblkDevices : x.type = "disk"}} :
       \E a \in Answers :
          IF selected_device = NoSelection
            THEN fpc' = "exit1" /\ UNCHANGED <<dev, vd_confirm>>
            ELSE /\ vd_confirm' = IF NeedsConfirmation(selected_device)
                                    THEN a ELSE vd_confirm
                 /\ IF validate_device(selected_device, a)
                      THEN fpc' = "check" /\ dev' = selected_device
                      ELSE fpc' = "exit1" /\ UNCHANGED dev
    /\ UNCHANGED <<monVars, codecVars, entries, images, confirm, idx, c_off,
                   dev_log>>

\* if dev.startswith('/dev/'): if not validate_device(dev): sys.exit(1);
\* then "Writing to {dev}" and .env.txt is read
FCheck ==
    /\ fpc = "check"
    /\ IF StartsWith(dev, DevPrefix)
         THEN \E a \in Answers :
                /\ vd_confirm' = IF NeedsConfirmation(dev) THEN a ELSE vd_confirm
                /\ fpc' = IF validate_device(dev, a) THEN "entry" ELSE "exit1"
         ELSE fpc' = "entry" /\ UNCHANGED vd_confirm
    /\ UNCHANGED <<monVars, codecVars, entries, images, dev, confirm, idx,
                   c_off, dev_log>>

(***************************************************************************)
(* img2sd.py: main, for each entry e of p.                                 *)
(***************************************************************************)
\* c_off += size(idx) replaced by the size of the image file
Advance_ByImage ==
    /\ c_off' = c_off + actual_size(idx)
    /\ idx' = idx + 1
    /\ fpc' = "entry"

\* c_off += size, and the for loop takes the next entry
Advance ==
    /\ c_off' = c_off + size(idx)
    /\ idx' = idx + 1
    /\ fpc' = "entry"

\* The size test of main left out.
ImageTooLarge_Off(i) == FALSE

\* if actual_size > size: sys.exit(1)
ImageTooLarge(i) == actual_size(i) > size(i)

\* for e in p: an entry neither pattern is found in is passed over (the if
\* has no else branch; c_off stays).  For a matched entry:
\* if os.path.exists(img_path) ... else sys.exit(1);
\* if actual_size > size: sys.exit(1); otherwise the dd command is built
FEntry ==
    /\ fpc = "entry"
    /\ idx <= Len(entries)
    /\ IF ~Matched(idx)
         THEN fpc' = "entry" /\ idx' = idx + 1
         ELSE /\ fpc' = IF actual_size(idx) = NoImage \/ ImageTooLarge(idx)
                          THEN "exit1" ELSE "write"
              /\ UNCHANGED idx
    /\ UNCHANGED <<monVars, codecVars, entries, images, dev, vd_confirm,
                   confirm, c_off, dev_log>>

\* subprocess.Popen(cmd) of dd if=img of=dev bs=block_size seek=...; the loop
\* reads its stderr until it ends and never looks at its exit code.  dd either
\* copies the whole image or stops with an error after a part of it.
FWrite ==
    /\ fpc = "write"
    /\ \E ok \in BOOLEAN :
       \E n \in {IF ok THEN actual_size(idx) ELSE 0,
                 IF ok THEN actual_size(idx) ELSE actual_size(idx) \div 2} :
            dev_log' = Append(dev_log,
                [kind |-> "img", rec |-> idx, start |-> WriteStart(idx),
                 len |-> n, ok |-> ok])
    /\ fpc' = IF actual_size(idx) < size(idx) THEN "pad" ELSE "verify"
    /\ UNCHANGED <<monVars, codecVars, entries, images, dev, vd_confirm,
                   confirm, idx, c_off>>

\* subprocess.run(pad_cmd, check=True): dd if=/dev/zero of=dev bs=block_size
\* seek=... count=...; a failure raises CalledProcessError: sys.exit(1)
FPad ==
    /\ fpc = "pad"
    /\ \E ok \in BOOLEAN :
        /\ dev_log' = Append(dev_log,
              [kind |-> "zero", rec |-> idx, start |-> PadStart(idx),
               len |-> IF ok THEN PadLength(idx) ELSE 0, ok |-> ok])
        /\ fpc' = IF ok THEN "verify" ELSE "exit1"
    /\ UNCHANGED <<monVars, codecVars, entries, images, dev, vd_confirm,
                   confirm, idx, c_off>>

\* if actual_size > 64*1024*1024: quick_verify_data, else verify_written_data;
\* a failed full verification of a padded image is reported as skipped
FVerify ==
    /\ fpc = "verify"
    /\ IF actual_size(idx) > 64 * MiB
         THEN IF quick_verify_data(dev_log, idx, c_off)
                THEN Advance
                ELSE fpc' = "confirm" /\ UNCHANGED <<idx, c_off>>
         ELSE IF verify_written_data(dev_log, idx, c_off)
                THEN Advance
                ELSE IF actual_size(idx) < size(idx)
                       THEN Advance
                       ELSE fpc' = "confirm" /\ UNCHANGED <<idx, c_off>>
    /\ UNCHANGED <<monVars, codecVars, entries, images, dev, vd_confirm,
                   confirm, dev_log>>

\* confirm = input("Continue anyway? (yes/NO): ");
\* if confirm.lower() != 'yes': sys.exit(1)
FConfirm ==
    /\ fpc = "confirm"
    /\ \E a \in Answers :
        /\ confirm' = a
        /\ IF ~Affirmative(a)
             THEN fpc' = "exit1" /\ UNCHANGED <<idx, c_off>>
             ELSE Advance
    /\ UNCHANGED <<monVars, codecVars, entries, images, dev, vd_confirm,
                   dev_log>>

\* after the last entry: subprocess.run(['sync']);
\* print("All operations completed successfully!"), exit code 0
FFinish ==
    /\ fpc = "entry"
    /\ idx > Len(entries)
    /\ fpc' = "done"
    /\ UNCHANGED <<monVars, codecVars, entries, images, dev, vd_confirm,
                   confirm, idx, c_off, dev_log>>

NextFlash ==
    \/ FEntry
    \/ FWrite
    \/ FPad
    \/ FVerify
    \/ FConfirm
    \/ FFinish

SpecFlash == InitFlash /\ [][NextFlash]_vars

NextCli ==
    \/ FArgs
    \/ FSelect
    \/ FCheck
    \/ NextFlash

SpecCli == InitCli /\ [][NextCli]_vars

(***************************************************************************)
(* img2sd.py: a byte count formatted by nice_size and read by true_size.   *)
(***************************************************************************)
\* The byte counts c * unit for c up to MaxCount, and one GiB.
CodecInputs ==
    {c * UnitBytes(u) : c \in 0..MaxCount, u \in {"B", "K", "M"}} \cup {GiB}

InitCodec ==
    /\ MonitorInit({1})
    /\ FlashIdle
    /\ rt_pc = "format"
    /\ rt_n \in CodecInputs
    /\ rt_s = <<>>
    /\ rt_back = 0

\* s = nice_size(n)
CFormat ==
    /\ rt_pc = "format"
    /\ rt_s' = nice_size(rt_n)
    /\ rt_pc' = "parse"
    /\ UNCHANGED <<monVars, flashVars, rt_n, rt_back>>

\* true_size(s)
CParse ==
    /\ rt_pc = "parse"
    /\ rt_back' = true_size(rt_s)
    /\ rt_pc' = "done"
    /\ UNCHANGED <<monVars, flashVars, rt_n, rt_s>>

NextCodec ==
    \/ CFormat
    \/ CParse

SpecCodec == InitCodec /\ [][NextCodec]_vars

(***************************************************************************)
(* Claims about the flash session (img2sd.py).                             *)
(***************************************************************************)
\* The cumulative byte offset of entry i: the sum of the declared sizes of
\* the partition records before it.
RECURSIVE CumulativeOffset(_)
CumulativeOffset(i) ==
    IF i <= 1 THEN 0
    ELSE CumulativeOffset(i - 1) + (IF Matched(i - 1) THEN size(i - 1) ELSE 0)

\* C1: every image write of the session starts at exactly the cumulative
\* byte offset of its record, whichever block size dd was given.
C1_WriteAtCumulativeOffset ==
    \A k \in DOMAIN dev_log :
        dev_log[k].kind = "img" => dev_log[k].start = CumulativeOffset(dev_log[k].rec)

\* The image and padding commands of the current record both ran to the end,
\* the image is smaller than its partition, and verification is next.
PaddedRecordWritten ==
    /\ fpc = "verify"
    /\ actual_size(idx) < size(idx)
    /\ \A k \in DOMAIN dev_log : dev_log[k].rec = idx => dev_log[k].ok

\* C2: after the write step of a record whose image is smaller than its
\* partition, the partition range [cumulativeOffset, cumulativeOffset + size)
\* holds the image bytes followed by zero bytes up to the partition boundary.
C2_ImageThenZeros ==
    PaddedRecordWritten =>
        /\ RangeIsImage(dev_log, CumulativeOffset(idx), actual_size(idx), idx, 0)
        /\ RangeIsZero(dev_log, CumulativeOffset(idx) + actual_size(idx), pad_size(idx))

\* C3: after a failed image write the session issues no command for a later
\* record and does not end with success (exit code 0).
C3_WriteFailureIsFatal ==
    \A k \in DOMAIN dev_log :
        (dev_log[k].kind = "img" /\ ~dev_log[k].ok) =>
            /\ fpc # "done"
            /\ \A l \in DOMAIN dev_log : dev_log[l].rec <= dev_log[k].rec


(***************************************************************************)
(* Claims about the orchestrator (multiflash.py).                          *)
(***************************************************************************)
Range(q) == {q[i] : i \in DOMAIN q}

\* A worker is inside a flash session from active.add until active.remove.
InSession(w) == wpc[w] = "run"

\* C4: at every moment at most one flash session runs per device: no two
\* workers of the pool are in a session for the same device, and a device
\* whose session runs is in the active set.
C4_OneSessionPerDevice ==
    /\ \A w1, w2 \in Workers :
        (w1 # w2 /\ InSession(w1) /\ InSession(w2)) => wdev[w1] # wdev[w2]
    /\ \A w \in Workers : InSession(w) => wdev[w] \in active_devices

\* C4 witness: one worker runs the session of a device while another worker
\* has dequeued a duplicate entry for that device and is at flash_device.
C4_Witness ==
    \E w1, w2 \in Workers :
        /\ w1 # w2
        /\ InSession(w1)
        /\ wpc[w2] = "flash"
        /\ wdev[w2] = wdev[w1]

\* C5: the queue never holds two pending entries for one device, and a
\* device that is queued is not at the same time active (it is enqueued once).
C5_QueuedOnce ==
    /\ \A i, j \in DOMAIN flash_queue : i # j => flash_queue[i] # flash_queue[j]
    /\ \A d \in Range(flash_queue) : d \notin active_devices

\* The poll loop takes d as a newly inserted device in this step.
ObservedNew(d) ==
    /\ mpc = "new"
    /\ d \in new_devices
    /\ d \notin known_devices
    /\ d \in known_devices'

\* The poll loop drops the new device of this step without queueing it.
NotQueued ==
    \/ mpc = "new" /\ known_devices' # known_devices /\ mpc' = "new"
    \/ mpc = "chk_failed" /\ mpc' = "new"

\* C6: whenever the poll loop observes a device as inserted (again), the
\* device is in neither completed nor failed at that poll, and the poll
\* goes on to enqueue it.
C6_ReinsertedIsFresh ==
    [][ /\ \A d \in Devices :
            ObservedNew(d) => d \notin (completed_devices \cup failed_devices)
        /\ ~NotQueued ]_vars

\* A session for d starts in this step (flash_device adds d to active).
SessionStart(d) == d \notin active_devices /\ d \in active_devices'

\* C7: a device is taken as new and enqueued only in a poll cycle whose scan
\* shows it present and in which it was not yet known (so a device that
\* disappeared is not queued again until it reappears, and one that stays
\* inserted is not enqueued again), and no session starts for a known device
\* that is already completed or failed: it is not flashed a second time.
C7_NoSecondFlash ==
    [][ /\ \A d \in Devices : ObservedNew(d) => d \in current_devices
        /\ (Len(flash_queue') > Len(flash_queue)) =>
              /\ mdev \in current_devices
              /\ flash_queue' = Append(flash_queue, mdev)
        /\ \A d \in Devices :
              (SessionStart(d) /\ d \in known_devices) =>
                  d \notin (completed_devices \cup failed_devices) ]_vars

\* The next step of the poll loop tests or mutates completed or failed.
MonTouchesTerminal ==
    \/ mpc = "new" /\ new_devices # {}
    \/ mpc = "chk_failed"
    \/ mpc = "rem" /\ removed_devices # {}
    \/ mpc = "rem_failed"

\* C8: the poll loop is never at a test or mutation of completed/failed
\* while a worker is inside its locked update of those sets.
C8_PollUnderLock ==
    ~(MonTouchesTerminal /\ \E w \in Workers : wpc[w] = "upd")

\* C9: active, completed and failed are pairwise disjoint and a queued
\* device is in none of them.
C9_OneLifecycleState ==
    /\ active_devices \cap completed_devices = {}
    /\ active_devices \cap failed_devices = {}
    /\ completed_devices \cap failed_devices = {}
    /\ Range(flash_queue) \cap
          (active_devices \cup completed_devices \cup failed_devices) = {}

\* C10: once the stop signal is set no worker dequeues a device or starts a
\* flash session.
C10_NoStartAfterStop ==
    [][ \A w \in Workers :
          /\ (wpc[w] = "get" /\ wpc'[w] = "flash") => ~stop_event
          /\ (wpc[w] = "flash" /\ wpc'[w] = "run") => ~stop_event ]_vars

\* C11: the final status is reported (mpc = "done") only after every flash
\* session has run to its recorded outcome: while a worker is inside
\* flash_device the orchestrator has not reported yet, and the final status
\* shows no active device.
C11_FinalStatusAfterSessions ==
    /\ \A w \in Workers : wpc[w] \in {"flash", "run", "upd"} => mpc # "done"
    /\ mpc = "done" => (active_devices = {} /\ lock = NoWorker)

\* C11 witness: the stop signal was set while a session is in flight and
\* the orchestrator is waiting in worker.join().
C11_Witness ==
    /\ stop_event
    /\ mpc = "join"
    /\ \E w \in Workers : wpc[w] = "run" /\ wdev[w] \in active_devices

(***************************************************************************)
(* Claims about the offset cursor, the entry patterns and the checks of a  *)
(* flash session (img2sd.py).                                              *)
(***************************************************************************)
\* No entry of the descriptor is written SIZE@OFFSET(NAME).
NoExplicitOffset == \A i \in DOMAIN entries : EntryMatch(entries[i]).groups # 3

C13_ExplicitOffsetHonored ==
    \A k \in DOMAIN dev_log :
        (/\ dev_log[k].kind = "img"
         /\ dev_log[k].ok
         /\ EntryMatch(entries[dev_log[k].rec]).groups = 3)
            => dev_log[k].start = off(dev_log[k].rec)

\* The record at the cursor has an image larger than its declared size.
AtOversizeRecord ==
    /\ idx \in DOMAIN entries
    /\ Matched(idx)
    /\ actual_size(idx) # NoImage
    /\ actual_size(idx) > size(idx)

\* C14: a record whose image is larger than its declared partition size is
\* rejected before any device I/O: the only step the session takes at it is
\* the exit with a non-zero code, and the device is left as it was.
C14_OversizeRejected ==
    [][ AtOversizeRecord => (fpc' = "exit1" /\ dev_log' = dev_log) ]_vars

\* C14 witness: the session has exited at an oversize record after it wrote
\* an earlier one.
C14_Witness ==
    /\ AtOversizeRecord
    /\ fpc = "exit1"
    /\ idx > 1
    /\ dev_log # <<>>
    /\ \A k \in DOMAIN dev_log : dev_log[k].rec < idx

\* The verification main runs for the record at the cursor reports a
\* mismatch.
VerificationFails ==
    IF actual_size(idx) > 64 * MiB
      THEN ~quick_verify_data(dev_log, idx, c_off)
      ELSE ~verify_written_data(dev_log, idx, c_off)

\* C15: when the record was padded and its verification reports a
\* mismatch, with the full or with the sampled strategy, the session goes
\* on to the next record without asking for a confirmation.
C15_PaddedMismatchSkipped ==
    [][ (fpc = "verify" /\ actual_size(idx) < size(idx) /\ VerificationFails)
            => (fpc' = "entry" /\ idx' = idx + 1) ]_vars

\* C16: when, after the write step of a record, the device bytes of the
\* range the image was to be written to differ from the image, the session
\* does not go on without asking the operator, padded record or not.
C16_GenuineMismatchEscalates ==
    [][ (/\ fpc = "verify"
         /\ ~RangeIsImage(dev_log, CumulativeOffset(idx), actual_size(idx), idx, 0))
            => fpc' = "confirm" ]_vars

\* C17: after a failed verification of an unpadded record the operator is
\* asked; the session goes on to the next record only on the answer yes,
\* and on any other answer exits non-zero without a further device write.
C17_ContinueOnlyOnYes ==
    [][ /\ (fpc = "verify" /\ actual_size(idx) = size(idx) /\ VerificationFails)
            => (fpc' = "confirm" /\ idx' = idx /\ dev_log' = dev_log)
        /\ fpc = "confirm"
            => IF confirm' \in {"yes", "YES"}
                 THEN fpc' = "entry" /\ idx' = idx + 1 /\ dev_log' = dev_log
                 ELSE fpc' = "exit1" /\ dev_log' = dev_log ]_vars

\* C17 witness: the verification of an unpadded record failed, the operator
\* gave the empty answer and the session exited.
C17_Witness ==
    /\ fpc = "exit1"
    /\ confirm = ""
    /\ idx \in DOMAIN entries
    /\ actual_size(idx) = size(idx)
    /\ VerificationFails

\* C18: the session never goes past an entry that matches neither pattern:
\* it is not skipped, and no later record is processed.
C18_MalformedEntryAborts ==
    \A i \in DOMAIN entries :
        ~Matched(i) => (idx <= i /\ fpc # "done")

(***************************************************************************)
(* Claim about the command line of img2sd.py.                              *)
(***************************************************************************)
\* The target names a listed block device that is removable or that the
\* operator confirmed with yes at the prompt of validate_device.
SafetyCheckPassed ==
    /\ \E d \in LsblkDevices : d.name = basename(dev)
    /\ (basename(dev) \in RemovableNames \/ vd_confirm \in {"yes", "YES"})

\* C19: whatever the command line was, a dd command is run on the target
\* only after the target passed the safety check.
C19_NoWriteWithoutCheck == dev_log # <<>> => SafetyCheckPassed

(***************************************************************************)
(* Claim about the size codec of img2sd.py.                                *)
(***************************************************************************)
\* C20: true_size(nice_size(n)) = n for every byte count n, also when the
\* formatted number has four or more digits.
C20_RoundTrip == rt_pc = "done" => rt_back = rt_n

(***************************************************************************)
(* Claim about the consumption of the flash queue (multiflash.py).         *)
(***************************************************************************)
\* The thread of start_flash_worker is running.
WorkerAlive(w) == wpc[w] \notin {"off", "exit", "dead"}

\* C21: while no stop signal is set, a device waiting on the flash queue
\* always has a running worker that will dequeue it: the worker thread
\* survives a timeout of its wait on the empty queue and the failure of
\* another device's session.
C21_QueueIsConsumed ==
    (flash_queue # <<>> /\ ~stop_event) => \E w \in Workers : WorkerAlive(w)

(***************************************************************************)
(* Claims about the sampled compare and the frame of a record (img2sd.py). *)
(***************************************************************************)
\* C22: when the device range [offset, offset + S) holds exactly the bytes
\* of the image that main verifies by sampling, the three samples of
\* quick_verify_data are equal on both sides and the check passes.
C22_SampledComparePasses ==
    (/\ fpc = "verify"
     /\ actual_size(idx) > 64 * MiB
     /\ RangeIsImage(dev_log, c_off, actual_size(idx), idx, 0))
        => quick_verify_data(dev_log, idx, c_off)

\* The dd command k wrote into the bytes of the image of record i.
WritesIntoImage(k, i) ==
    /\ dev_log[k].len > 0
    /\ dev_log[k].start < CumulativeOffset(i) + actual_size(i)
    /\ CumulativeOffset(i) < dev_log[k].start + dev_log[k].len

\* C23: at the successful end of a session over a descriptor without
\* explicit offsets, no command of a later record has written into the
\* image bytes of an earlier record, which start at that record's
\* cumulative offset.
C23_EarlierRecordsUntouched ==
    (fpc = "done" /\ NoExplicitOffset) =>
        \A k \in DOMAIN dev_log :
            \A i \in 1..(dev_log[k].rec - 1) :
                Matched(i) => ~WritesIntoImage(k, i)

====
